---- MODULE Spec2Model ----
(***************************************************************************)
(* SecureVox native transcription boundary.                                *)
(*                                                                         *)
(* Two variants of the same boundary wrap the whisper engine:              *)
(*   windows : src/windows/src/SecureVox.Native/whisper_wrapper.cpp        *)
(*   android : src/android/app/src/main/cpp/whisper_jni.cpp                *)
(*                                                                         *)
(* Three specifications share this module:                                 *)
(*   Spec     one host thread driving the boundary of one variant          *)
(*   SpecEnc  the result encoder applied to bounded engine segment lists   *)
(*   SpecConc several host threads using the windows last-error storage    *)
(*                                                                         *)
(* Byte strings (char*, std::string, jstring contents) are sequences of    *)
(* byte values.  Messages of the error state are TLA+ strings.             *)
(***************************************************************************)
EXTENDS Integers, Sequences, FiniteSets, TLC

VARIABLES
    \* ---- Spec: one host thread ----
    platform,     \* "windows" or "android": which variant is linked
    ctxState,     \* engine contexts: "unalloc", "en", "multi" (live), "freed"
    ctxSegs,      \* segments the engine holds in each context
    lastError,    \* g_last_error (windows)
    lastLogE,     \* last line written with LOGE (android)
    strLive,      \* the latest result string made with new[] is not yet released
    pc,           \* "idle", or "engine" while whisper_full runs
    call,         \* arguments and stack frame of the transcribe call in flight
    tickLog,      \* progress ticks the engine emitted during the latest operation
    hostLog,      \* values delivered to the host callback during the latest operation
    ret,          \* latest operation: its arguments and what it returned
    hostFreed,    \* handles the host has passed to free
    disciplined,  \* the host never passed a handle again after freeing it
    misuse,       \* first misuse of the engine: "none", "use_after_free" (a freed
                  \* context handed to it) or "double_free" (whisper_free again)
    crashed,      \* the process died (null dereference, undefined behaviour)
    \* ---- SpecEnc: result encoder ----
    encIn,        \* engine segment list given to the encoder
    encOut,       \* JSON bytes produced
    encPc,        \* "ready" or "done"
    \* ---- SpecConc: threads on the windows last-error storage ----
    tpc,          \* position of each thread
    tmsg,         \* message a thread is recording with set_error
    mutex,        \* holder of g_error_mutex, 0 when free
    errWriting,   \* the assignment to g_last_error is in progress
    tstale,       \* the buffer behind the pointer a thread holds was released
    tread,        \* what the thread read through the returned pointer
    thazard       \* "none", "overwritten" or "released": state of that read

mainVars == <<platform, ctxState, ctxSegs, lastError, lastLogE, strLive, pc,
              call, tickLog, hostLog, ret, hostFreed, disciplined, misuse, crashed>>
encVars  == <<encIn, encOut, encPc>>
concVars == <<tpc, tmsg, mutex, errWriting, tstale, tread, thazard>>
vars     == <<mainVars, encVars, concVars>>

----------------------------------------------------------------------------
(* Bounds *)

MaxCtx     == 1   \* contexts init can create in one run
MaxTicks   == 2   \* progress ticks of one whisper_full run
MaxSegs    == 2   \* segments of one engine result
MaxTextLen == 2   \* bytes of one segment text in the encoder inputs
NThreads   == 2   \* host threads of SpecConc

----------------------------------------------------------------------------
(* Bytes *)

QUOTE     == 34
BACKSLASH == 92
NEWLINE   == 10
CR        == 13
TAB       == 9
COMMA     == 44
DOT       == 46
LBRACKET  == 91
RBRACKET  == 93
LBRACE    == 123
RBRACE    == 125
COLON     == 58
CH_n      == 110
CH_r      == 114
CH_t      == 116
CH_0      == 48

\* bytes the segment texts of the encoder inputs are built from: the five
\* recognised characters, the letters their escapes end in, an unrecognised
\* control character (bell, 7), a byte above 127 (233) and the separator
TextBytes == {QUOTE, BACKSLASH, NEWLINE, CR, TAB, CH_n, 7, 233, COMMA}

----------------------------------------------------------------------------
(* Result encoder (both variants) *)

RECURSIVE IntToDec(_)
\* decimal digits of a non-negative integer, as printf prints them
IntToDec(n) ==
    IF n < 10 THEN <<CH_0 + n>>
    ELSE Append(IntToDec(n \div 10), CH_0 + (n % 10))

\* t * 10.0 : the int64 centisecond time converted to double and scaled.
\* Exact for the magnitudes modelled (below 2^53).
ToMs(t) == t * 10

\* std::to_string(double) prints with "%f": six decimals
to_string_double(ms) == IntToDec(ms) \o <<DOT, CH_0, CH_0, CH_0, CH_0, CH_0, CH_0>>

\* variant: the switch without its backslash case
EscapeByteNoBackslash(b) ==
    CASE b = QUOTE     -> <<BACKSLASH, QUOTE>>
      [] b = NEWLINE   -> <<BACKSLASH, CH_n>>
      [] b = CR        -> <<BACKSLASH, CH_r>>
      [] b = TAB       -> <<BACKSLASH, CH_t>>
      [] OTHER         -> <<b>>

\* the switch of the escaping loop
EscapeByte(b) ==
    CASE b = QUOTE     -> <<BACKSLASH, QUOTE>>
      [] b = BACKSLASH -> <<BACKSLASH, BACKSLASH>>
      [] b = NEWLINE   -> <<BACKSLASH, CH_n>>
      [] b = CR        -> <<BACKSLASH, CH_r>>
      [] b = TAB       -> <<BACKSLASH, CH_t>>
      [] OTHER         -> <<b>>

RECURSIVE EscapeText(_)
\* for (const char* p = text; *p; p++) escapedText += ...
EscapeText(text) ==
    IF text = <<>> THEN <<>>
    ELSE EscapeByte(Head(text)) \o EscapeText(Tail(text))

LIT_TEXT  == <<QUOTE, 116, 101, 120, 116, QUOTE, COLON, QUOTE>>   \* "text":"
LIT_START == <<QUOTE, 115, 116, 97, 114, 116, QUOTE, COLON>>      \* "start":
LIT_END   == <<QUOTE, 101, 110, 100, QUOTE, COLON>>               \* "end":

\* one loop body without the separator: {"text":"..","start":..,"end":..}
SegmentObject(seg) ==
    <<LBRACE>> \o LIT_TEXT \o EscapeText(seg.text) \o <<QUOTE, COMMA>>
      \o LIT_START \o to_string_double(ToMs(seg.t0)) \o <<COMMA>>
      \o LIT_END \o to_string_double(ToMs(seg.t1)) \o <<RBRACE>>

\* variant: the separator without the test of i
SeparatorAlways(i) == <<COMMA>>

\* if (i > 0) jsonResult += ","   (i counts from 0)
Separator(i) == IF i > 0 THEN <<COMMA>> ELSE <<>>

RECURSIVE BuildLoop(_, _, _)
\* the for loop over the engine's segments, from index i with jsonResult acc
BuildLoop(segs, i, acc) ==
    IF i >= Len(segs) THEN acc
    ELSE BuildLoop(segs, i + 1, acc \o Separator(i) \o SegmentObject(segs[i + 1]))

\* jsonResult = "[" ... "]"
BuildJson(segs) == BuildLoop(segs, 0, <<LBRACKET>>) \o <<RBRACKET>>

----------------------------------------------------------------------------
(* Reader of the exchange format, written from its grammar                 *)
(*   [{"text":"<escaped>","start":<float ms>,"end":<float ms>}, ...]       *)
(* and used only to state properties of the encoder's output.              *)

IsDigit(b) == b >= CH_0 /\ b <= CH_0 + 9

MatchLit(s, pos, lit) ==
    /\ pos + Len(lit) - 1 <= Len(s)
    /\ SubSeq(s, pos, pos + Len(lit) - 1) = lit

RECURSIVE StringEnd(_, _)
\* index of the quote closing a string whose content starts at pos, 0 if none;
\* a backslash hides the byte after it
StringEnd(s, pos) ==
    IF pos > Len(s) THEN 0
    ELSE IF s[pos] = QUOTE THEN pos
    ELSE IF s[pos] = BACKSLASH THEN StringEnd(s, pos + 2)
    ELSE StringEnd(s, pos + 1)

RECURSIVE DigitsEnd(_, _)
\* first index at or after pos that holds no digit
DigitsEnd(s, pos) ==
    IF pos <= Len(s) /\ IsDigit(s[pos]) THEN DigitsEnd(s, pos + 1) ELSE pos

RECURSIVE DecToInt(_)
DecToInt(d) ==
    IF d = <<>> THEN 0
    ELSE 10 * DecToInt(SubSeq(d, 1, Len(d) - 1)) + (d[Len(d)] - CH_0)

NoNumber == [ok |-> FALSE, next |-> 0, int |-> 0, frac |-> <<>>]

\* <digits>.<digits> starting at pos
ReadNumber(s, pos) ==
    LET e1 == DigitsEnd(s, pos) IN
    IF e1 = pos \/ e1 > Len(s) \/ s[e1] # DOT THEN NoNumber
    ELSE LET e2 == DigitsEnd(s, e1 + 1) IN
         IF e2 = e1 + 1 THEN NoNumber
         ELSE [ok |-> TRUE, next |-> e2,
               int |-> DecToInt(SubSeq(s, pos, e1 - 1)),
               frac |-> SubSeq(s, e1 + 1, e2 - 1)]

NoObject == [ok |-> FALSE, next |-> 0, raw |-> <<>>, start |-> NoNumber, end |-> NoNumber]

\* {"text":"<raw>","start":<number>,"end":<number>} starting at pos
ReadObject(s, pos) ==
    IF ~MatchLit(s, pos, <<LBRACE>> \o LIT_TEXT) THEN NoObject
    ELSE
    LET tb == pos + 1 + Len(LIT_TEXT)
        te == StringEnd(s, tb)
    IN  IF te = 0 \/ ~MatchLit(s, te, <<QUOTE, COMMA>> \o LIT_START) THEN NoObject
        ELSE
        LET n1 == ReadNumber(s, te + 2 + Len(LIT_START)) IN
        IF ~n1.ok \/ ~MatchLit(s, n1.next, <<COMMA>> \o LIT_END) THEN NoObject
        ELSE
        LET n2 == ReadNumber(s, n1.next + 1 + Len(LIT_END)) IN
        IF ~n2.ok \/ ~MatchLit(s, n2.next, <<RBRACE>>) THEN NoObject
        ELSE [ok |-> TRUE, next |-> n2.next + 1,
              raw |-> SubSeq(s, tb, te - 1), start |-> n1, end |-> n2]

NoArray == [ok |-> FALSE, objs |-> <<>>, commas |-> 0]

RECURSIVE ReadObjects(_, _, _, _)
\* objects separated by single commas up to the closing bracket at the end of s
ReadObjects(s, pos, objs, commas) ==
    LET o == ReadObject(s, pos) IN
    IF ~o.ok \/ o.next > Len(s) THEN NoArray
    ELSE IF s[o.next] = RBRACKET
         THEN IF o.next = Len(s)
              THEN [ok |-> TRUE, objs |-> Append(objs, o), commas |-> commas]
              ELSE NoArray
    ELSE IF s[o.next] = COMMA
         THEN ReadObjects(s, o.next + 1, Append(objs, o), commas + 1)
    ELSE NoArray

ReadArray(s) ==
    IF Len(s) < 2 \/ s[1] # LBRACKET THEN NoArray
    ELSE IF s = <<LBRACKET, RBRACKET>> THEN [ok |-> TRUE, objs |-> <<>>, commas |-> 0]
    ELSE ReadObjects(s, 2, <<>>, 0)

IsEscapePair(raw) ==
    /\ Len(raw) >= 2
    /\ raw[1] = BACKSLASH
    /\ raw[2] \in {QUOTE, BACKSLASH, CH_n, CH_r, CH_t}

Unescaped(b) ==
    CASE b = CH_n -> NEWLINE
      [] b = CH_r -> CR
      [] b = CH_t -> TAB
      [] OTHER    -> b

RECURSIVE UnescapeFive(_)
\* replaces exactly the sequences \" \\ \n \r \t, left to right
UnescapeFive(raw) ==
    IF raw = <<>> THEN <<>>
    ELSE IF IsEscapePair(raw)
         THEN <<Unescaped(raw[2])>> \o UnescapeFive(SubSeq(raw, 3, Len(raw)))
    ELSE <<Head(raw)>> \o UnescapeFive(Tail(raw))

RECURSIVE DropEscapes(_)
\* the bytes of raw that belong to none of the five sequences
DropEscapes(raw) ==
    IF raw = <<>> THEN <<>>
    ELSE IF IsEscapePair(raw) THEN DropEscapes(SubSeq(raw, 3, Len(raw)))
    ELSE <<Head(raw)>> \o DropEscapes(Tail(raw))

IsSpecial(b) == b \in {QUOTE, BACKSLASH, NEWLINE, CR, TAB}
NotSpecial(b) == ~IsSpecial(b)

AllZero(d) == \A i \in 1..Len(d) : d[i] = CH_0

----------------------------------------------------------------------------
(* Inputs of the encoder *)

SeqsUpTo(S, n) == UNION {[1..k -> S] : k \in 0..n}

Texts == SeqsUpTo(TextBytes, MaxTextLen)

TimePairs == {<<0, 0>>, <<0, 12>>, <<105, 230>>}

\* one segment with any text
RichSingles ==
    {<<[text |-> t, t0 |-> p[1], t1 |-> p[2]]>> : t \in Texts, p \in TimePairs}

\* 97 is the letter a
SampleTexts == {<<>>, <<97>>, <<QUOTE, COMMA, LBRACE>>, <<BACKSLASH, CH_n>>}

\* engine times of the segment at position i (centiseconds, increasing)
TimeAt(i) == 125 * (i - 1) + 3 * (i % 2)

\* several segments in increasing time order
MultiLists ==
    {[i \in 1..Len(ts) |-> [text |-> ts[i], t0 |-> TimeAt(i), t1 |-> TimeAt(i + 1)]] :
        ts \in SeqsUpTo(SampleTexts, MaxSegs)}

EncInputs == RichSingles \cup MultiLists

\* segment lists the engine leaves in a context in Spec
EngineResults ==
    {<<>>,
     <<[text |-> <<QUOTE, COMMA, LBRACE>>, t0 |-> TimeAt(1), t1 |-> TimeAt(2)],
       [text |-> <<97>>, t0 |-> TimeAt(2), t1 |-> TimeAt(3)]>>}

----------------------------------------------------------------------------
(* SpecEnc *)

\* the encoding part of a successful transcribe, applied to encIn
Encode ==
    /\ encPc = "ready"
    /\ encOut' = BuildJson(encIn)
    /\ encPc' = "done"
    /\ UNCHANGED <<encIn, mainVars, concVars>>

----------------------------------------------------------------------------
(* Spec: values *)

Ctxs       == 1..MaxCtx
NullStr    == "<null>"      \* a null const char* / null jstring argument
Paths      == {NullStr, "missing.bin", "ggml-tiny.en.bin", "ggml-tiny.bin"}
Langs      == {NullStr, "auto"}
Callbacks  == {"none", "cb"}     \* null, or a host progress callback
EngineCodes  == {0, -2, 6}       \* results of whisper_full
ProgressVals == {0, 100}

\* audio arguments: windows passes a pointer and a count, android an array
WindowsAudio == {[isNull |-> TRUE, n |-> 16000], [isNull |-> FALSE, n |-> -1],
                 [isNull |-> FALSE, n |-> 0], [isNull |-> FALSE, n |-> 16000]}
AndroidAudio == {[isNull |-> TRUE, n |-> 0], [isNull |-> FALSE, n |-> 0],
                 [isNull |-> FALSE, n |-> 16000]}
NoAudio      == [isNull |-> TRUE, n |-> 0]

Live(st) == st \in {"en", "multi"}

\* handles the host can hold: null and whatever init has returned
HostHandles == {0} \cup {c \in Ctxs : ctxState[c] # "unalloc"}

\* the record of an operation: arguments (h, path, audio, cb), the value
\* returned (kind with bytes, num or msg), whether it called into the engine,
\* the code whisper_full returned, and whether it directly follows a failed
\* transcribe on the same live context
RetBase == [op |-> "none", h |-> 0, path |-> "", audio |-> NoAudio, cb |-> "none",
            kind |-> "none", bytes |-> <<>>, num |-> 0, msg |-> "",
            engine |-> FALSE, code |-> 0, afterFail |-> FALSE]

\* the frame of a transcribe call: the context, whether a lambda is installed
\* as params.progress_callback, and the CallbackData on the stack
NoCall == [h |-> 0, installed |-> FALSE,
           cbData |-> [callback |-> "none", method |-> "none"]]

\* a failure sentinel: null / 0, or the empty string of the android variant
IsFailure(r) == r.kind = "null" \/ (r.kind = "string" /\ r.bytes = <<>>)

\* the latest operation was a transcribe call on h, a live context, that failed
JustFailedOn(h) ==
    /\ h # 0
    /\ ret.op = "transcribe" /\ IsFailure(ret) /\ ret.h = h
    /\ Live(ctxState[h])

\* the host hands h to the boundary
HostPasses(h) == disciplined' = (disciplined /\ h \notin hostFreed)

ClearLogs == tickLog' = <<>> /\ hostLog' = <<>>

----------------------------------------------------------------------------
(* The engine (whisper.h), as far as the boundary observes it *)

\* whisper_init_from_file_with_params: the kind of model at path, "none" if
\* the file cannot be loaded
ModelKind(path) ==
    CASE path = "ggml-tiny.en.bin" -> "en"
      [] path = "ggml-tiny.bin"    -> "multi"
      [] OTHER                     -> "none"

FreeSlots == {c \in Ctxs : ctxState[c] = "unalloc"}
NextCtx   == CHOOSE c \in FreeSlots : \A d \in FreeSlots : c <= d

\* whisper_free(ctx); on a context freed before the behaviour is undefined
EngineFree(h) ==
    IF Live(ctxState[h])
    THEN /\ ctxState' = [ctxState EXCEPT ![h] = "freed"]
         /\ UNCHANGED <<misuse, crashed>>
    ELSE /\ misuse' = (IF misuse = "none" THEN "double_free" ELSE misuse)
         /\ crashed' \in BOOLEAN
         /\ UNCHANGED ctxState

\* whisper_full(ctx, ...) is entered; on a freed context the behaviour is
\* undefined
EngineEnter(h) ==
    IF Live(ctxState[h])
    THEN UNCHANGED <<misuse, crashed>>
    ELSE /\ misuse' = (IF misuse = "none" THEN "use_after_free" ELSE misuse)
         /\ crashed' \in BOOLEAN

\* whisper_is_multilingual(ctx): 0 or 1; on a freed context anything
EngineIsMultilingual(h, answer) ==
    IF Live(ctxState[h])
    THEN /\ answer = (IF ctxState[h] = "multi" THEN 1 ELSE 0)
         /\ UNCHANGED <<misuse, crashed>>
    ELSE /\ misuse' = (IF misuse = "none" THEN "use_after_free" ELSE misuse)
         /\ crashed' \in BOOLEAN

----------------------------------------------------------------------------
(* windows: whisper_wrapper.cpp *)

\* set_error: g_last_error = error, under g_error_mutex
set_error(error) == lastError' = error

whisper_wrapper_init(path) ==
    /\ platform = "windows" /\ pc = "idle" /\ ~crashed
    /\ ClearLogs
    /\ IF path = NullStr
       THEN /\ set_error("Model path is null")
            /\ ret' = [RetBase EXCEPT !.op = "init", !.path = path, !.kind = "null"]
            /\ UNCHANGED ctxState
       ELSE IF ModelKind(path) = "none"
       THEN /\ set_error("Failed to load model from: " \o path)
            /\ ret' = [RetBase EXCEPT !.op = "init", !.path = path, !.kind = "null",
                                      !.engine = TRUE]
            /\ UNCHANGED ctxState
       ELSE /\ FreeSlots # {}
            /\ ctxState' = [ctxState EXCEPT ![NextCtx] = ModelKind(path)]
            /\ ret' = [RetBase EXCEPT !.op = "init", !.path = path, !.kind = "handle",
                                      !.h = NextCtx, !.engine = TRUE]
            /\ UNCHANGED lastError
    /\ UNCHANGED <<platform, ctxSegs, lastLogE, strLive, pc, call, hostFreed,
                   disciplined, misuse, crashed>>
    /\ UNCHANGED <<encVars, concVars>>

whisper_wrapper_free(h) ==
    /\ platform = "windows" /\ pc = "idle" /\ ~crashed
    /\ ClearLogs
    /\ IF h # 0
       THEN /\ EngineFree(h)
            /\ ret' = [RetBase EXCEPT !.op = "free", !.h = h, !.kind = "void",
                                      !.engine = TRUE]
            /\ hostFreed' = hostFreed \cup {h}
            /\ HostPasses(h)
       ELSE /\ ret' = [RetBase EXCEPT !.op = "free", !.h = h, !.kind = "void"]
            /\ UNCHANGED <<ctxState, misuse, crashed, hostFreed, disciplined>>
    /\ UNCHANGED <<platform, ctxSegs, lastError, lastLogE, strLive, pc, call>>
    /\ UNCHANGED <<encVars, concVars>>

\* variant: the buffer is checked before the context
ValidateAudioFirst(h, audio) ==
    IF audio.isNull \/ audio.n <= 0 THEN "Invalid audio data"
    ELSE IF h = 0 THEN "Context is null"
    ELSE ""

\* the two argument checks of whisper_wrapper_transcribe: the error to record,
\* "" when the arguments pass
ValidateTranscribe(h, audio) ==
    IF h = 0 THEN "Context is null"
    ELSE IF audio.isNull \/ audio.n <= 0 THEN "Invalid audio data"
    ELSE ""

\* params.language = language ? language : "en"
ParamsLanguage(lang) == IF lang = NullStr THEN "en" ELSE lang

\* whisper_wrapper_transcribe up to the call of whisper_full
whisper_wrapper_transcribe(h, audio, lang, cb) ==
    /\ platform = "windows" /\ pc = "idle" /\ ~crashed
    /\ ClearLogs
    /\ HostPasses(h)
    /\ IF ValidateTranscribe(h, audio) # ""
       THEN /\ set_error(ValidateTranscribe(h, audio))
            /\ ret' = [RetBase EXCEPT !.op = "transcribe", !.h = h, !.audio = audio,
                                      !.cb = cb, !.kind = "null",
                                      !.afterFail = JustFailedOn(h)]
            /\ UNCHANGED <<pc, call, misuse, crashed>>
       ELSE /\ EngineEnter(h)
            /\ pc' = "engine"
            /\ ParamsLanguage(lang) \in {"en", "auto"}
            /\ call' = [h |-> h,
                        installed |-> (cb # "none"),
                        cbData |-> [callback |-> cb, method |-> "none"]]
            /\ ret' = [RetBase EXCEPT !.op = "transcribe", !.h = h, !.audio = audio,
                                      !.cb = cb, !.kind = "pending", !.engine = TRUE,
                                      !.afterFail = JustFailedOn(h)]
            /\ UNCHANGED lastError
    /\ UNCHANGED <<platform, ctxState, ctxSegs, lastLogE, strLive, hostFreed>>
    /\ UNCHANGED <<encVars, concVars>>

\* variant: if (data->callback != nullptr && progress)
windows_progress_lambda_skipping_zero(cbData, progress) ==
    IF cbData.callback # "none" /\ progress # 0 THEN <<progress>> ELSE <<>>

\* the lambda installed as params.progress_callback: the values it hands to
\* the host callback for one tick
windows_progress_lambda(cbData, progress) ==
    IF cbData.callback # "none" THEN <<progress>> ELSE <<>>

\* variant: if (result < 0)
EngineFailedNegative(code) == code < 0

\* if (result != 0)
EngineFailed(code) == code # 0

\* variant: the failure branch releases the context
WindowsEngineFailureFreeing(code) ==
    /\ set_error("Transcription failed with code: " \o ToString(code))
    /\ ret' = [ret EXCEPT !.kind = "null", !.code = code]
    /\ ctxState' = [ctxState EXCEPT ![call.h] = "freed"]
    /\ UNCHANGED strLive

\* the failure branch after whisper_full
WindowsEngineFailure(code) ==
    /\ set_error("Transcription failed with code: " \o ToString(code))
    /\ ret' = [ret EXCEPT !.kind = "null", !.code = code]
    /\ UNCHANGED <<ctxState, strLive>>

\* variant: the success branch clears the last error
WindowsBuildResultClearing(code) ==
    /\ ret' = [ret EXCEPT !.kind = "string", !.code = code,
                          !.bytes = BuildJson(ctxSegs'[call.h])]
    /\ strLive' = TRUE
    /\ lastError' = ""
    /\ UNCHANGED ctxState

\* the success branch: the JSON of the context's segments, copied with new[]
WindowsBuildResult(code) ==
    /\ ret' = [ret EXCEPT !.kind = "string", !.code = code,
                          !.bytes = BuildJson(ctxSegs'[call.h])]
    /\ strLive' = TRUE
    /\ UNCHANGED <<ctxState, lastError>>

\* whisper_full returns code and leaves segs in the context; the rest of
\* whisper_wrapper_transcribe
whisper_wrapper_transcribe_return(code, segs) ==
    /\ platform = "windows" /\ pc = "engine" /\ ~crashed
    /\ ctxSegs' = [ctxSegs EXCEPT ![call.h] = segs]
    /\ IF EngineFailed(code) THEN WindowsEngineFailure(code) ELSE WindowsBuildResult(code)
    /\ pc' = "idle"
    /\ call' = NoCall
    /\ UNCHANGED <<platform, lastLogE, tickLog, hostLog, hostFreed, disciplined, misuse,
                   crashed>>
    /\ UNCHANGED <<encVars, concVars>>

\* str is "null" or the latest string returned by transcribe, not yet released
whisper_wrapper_free_string(str) ==
    /\ platform = "windows" /\ pc = "idle" /\ ~crashed
    /\ ClearLogs
    /\ IF str # "null"
       THEN /\ strLive
            /\ strLive' = FALSE
       ELSE UNCHANGED strLive
    /\ ret' = [RetBase EXCEPT !.op = "free_string", !.kind = "void", !.msg = str]
    /\ UNCHANGED <<platform, ctxState, ctxSegs, lastError, lastLogE, pc, call, hostFreed,
                   disciplined, misuse, crashed>>
    /\ UNCHANGED <<encVars, concVars>>

whisper_wrapper_get_system_info ==
    /\ platform = "windows" /\ pc = "idle" /\ ~crashed
    /\ ClearLogs
    /\ ret' = [RetBase EXCEPT !.op = "system_info", !.kind = "cstr",
                              !.msg = "system_info", !.engine = TRUE]
    /\ UNCHANGED <<platform, ctxState, ctxSegs, lastError, lastLogE, strLive, pc, call,
                   hostFreed, disciplined, misuse, crashed>>
    /\ UNCHANGED <<encVars, concVars>>

whisper_wrapper_is_multilingual(h, answer) ==
    /\ platform = "windows" /\ pc = "idle" /\ ~crashed
    /\ ClearLogs
    /\ HostPasses(h)
    /\ IF h = 0
       THEN /\ answer = 0
            /\ ret' = [RetBase EXCEPT !.op = "is_multilingual", !.kind = "bool"]
            /\ UNCHANGED <<misuse, crashed>>
       ELSE /\ EngineIsMultilingual(h, answer)
            /\ ret' = [RetBase EXCEPT !.op = "is_multilingual", !.h = h, !.kind = "bool",
                                      !.num = answer, !.engine = TRUE]
    /\ UNCHANGED <<platform, ctxState, ctxSegs, lastError, lastLogE, strLive, pc, call,
                   hostFreed>>
    /\ UNCHANGED <<encVars, concVars>>

\* returns g_last_error.c_str()
whisper_wrapper_get_last_error ==
    /\ platform = "windows" /\ pc = "idle" /\ ~crashed
    /\ ClearLogs
    /\ ret' = [RetBase EXCEPT !.op = "get_last_error", !.kind = "cstr", !.msg = lastError]
    /\ UNCHANGED <<platform, ctxState, ctxSegs, lastError, lastLogE, strLive, pc, call,
                   hostFreed, disciplined, misuse, crashed>>
    /\ UNCHANGED <<encVars, concVars>>

----------------------------------------------------------------------------
(* android: whisper_jni.cpp *)

\* LOGE(...): the line goes to the log only
LOGE(line) == lastLogE' = line

\* a JNI call on a null reference (GetStringUTFChars, GetArrayLength) is
\* undefined: the runtime may abort the process, which is this outcome, or
\* hand back null / 0 and let the function go on
JniNullCrash ==
    /\ crashed' = TRUE
    /\ UNCHANGED <<platform, ctxState, ctxSegs, lastError, lastLogE, strLive, pc, call,
                   tickLog, hostLog, ret, hostFreed, disciplined, misuse>>

initContext(path) ==
    /\ platform = "android" /\ pc = "idle" /\ ~crashed
    /\ UNCHANGED <<encVars, concVars>>
    /\ \/ /\ path = NullStr
          /\ JniNullCrash
       \/ /\ ClearLogs
          /\ IF ModelKind(path) = "none"
             THEN /\ LOGE("Failed to load model")
                  /\ ret' = [RetBase EXCEPT !.op = "init", !.path = path,
                                            !.kind = "null", !.engine = TRUE]
                  /\ UNCHANGED ctxState
             ELSE /\ FreeSlots # {}
                  /\ ctxState' = [ctxState EXCEPT ![NextCtx] = ModelKind(path)]
                  /\ ret' = [RetBase EXCEPT !.op = "init", !.path = path,
                                            !.kind = "handle", !.h = NextCtx,
                                            !.engine = TRUE]
                  /\ UNCHANGED lastLogE
          /\ UNCHANGED <<platform, ctxSegs, lastError, strLive, pc, call, hostFreed,
                         disciplined, misuse, crashed>>

freeContext(h) ==
    /\ platform = "android" /\ pc = "idle" /\ ~crashed
    /\ ClearLogs
    /\ IF h # 0
       THEN /\ EngineFree(h)
            /\ ret' = [RetBase EXCEPT !.op = "free", !.h = h, !.kind = "void",
                                      !.engine = TRUE]
            /\ hostFreed' = hostFreed \cup {h}
            /\ HostPasses(h)
       ELSE /\ ret' = [RetBase EXCEPT !.op = "free", !.h = h, !.kind = "void"]
            /\ UNCHANGED <<ctxState, misuse, crashed, hostFreed, disciplined>>
    /\ UNCHANGED <<platform, ctxSegs, lastError, lastLogE, strLive, pc, call>>
    /\ UNCHANGED <<encVars, concVars>>

\* transcribeAudio up to the call of whisper_full
transcribeAudio(h, audio, lang, cb) ==
    /\ platform = "android" /\ pc = "idle" /\ ~crashed
    /\ UNCHANGED <<encVars, concVars>>
    /\ IF h = 0
       THEN /\ LOGE("Context is null")
            /\ ret' = [RetBase EXCEPT !.op = "transcribe", !.h = h, !.audio = audio,
                                      !.cb = cb, !.kind = "string", !.bytes = <<>>,
                                      !.afterFail = JustFailedOn(h)]
            /\ ClearLogs
            /\ UNCHANGED <<platform, ctxState, ctxSegs, lastError, strLive, pc, call,
                           hostFreed, disciplined, misuse, crashed>>
       ELSE \/ /\ audio.isNull \/ lang = NullStr
               /\ JniNullCrash
            \/ /\ ClearLogs
               /\ HostPasses(h)
               /\ EngineEnter(h)
               /\ pc' = "engine"
               /\ call' = [h |-> h, installed |-> TRUE,
                           cbData |-> [callback |-> cb,
                                       method |-> IF cb # "none" THEN "onProgress"
                                                  ELSE "none"]]
               /\ ret' = [RetBase EXCEPT !.op = "transcribe", !.h = h, !.audio = audio,
                                         !.cb = cb, !.kind = "pending", !.engine = TRUE,
                                         !.afterFail = JustFailedOn(h)]
               /\ UNCHANGED <<platform, ctxState, ctxSegs, lastError, lastLogE, strLive,
                              hostFreed>>

\* the lambda installed as params.progress_callback
android_progress_lambda(cbData, progress) ==
    IF cbData.callback # "none" /\ cbData.method # "none" THEN <<progress>> ELSE <<>>

\* variant: the failure branch releases the context
AndroidEngineFailureFreeing(code) ==
    /\ LOGE("Transcription failed with code: " \o ToString(code))
    /\ ret' = [ret EXCEPT !.kind = "string", !.bytes = <<>>, !.code = code]
    /\ ctxState' = [ctxState EXCEPT ![call.h] = "freed"]

\* the failure branch after whisper_full
AndroidEngineFailure(code) ==
    /\ LOGE("Transcription failed with code: " \o ToString(code))
    /\ ret' = [ret EXCEPT !.kind = "string", !.bytes = <<>>, !.code = code]
    /\ UNCHANGED ctxState

\* the success branch: the JSON of the context's segments as a new jstring
AndroidBuildResult(code) ==
    /\ ret' = [ret EXCEPT !.kind = "string", !.code = code,
                          !.bytes = BuildJson(ctxSegs'[call.h])]
    /\ UNCHANGED <<ctxState, lastLogE>>

\* whisper_full returns code and leaves segs in the context; the rest of
\* transcribeAudio
transcribeAudio_return(code, segs) ==
    /\ platform = "android" /\ pc = "engine" /\ ~crashed
    /\ ctxSegs' = [ctxSegs EXCEPT ![call.h] = segs]
    /\ IF EngineFailed(code) THEN AndroidEngineFailure(code) ELSE AndroidBuildResult(code)
    /\ pc' = "idle"
    /\ call' = NoCall
    /\ UNCHANGED <<platform, lastError, strLive, tickLog, hostLog, hostFreed,
                   disciplined, misuse, crashed>>
    /\ UNCHANGED <<encVars, concVars>>

getSystemInfo ==
    /\ platform = "android" /\ pc = "idle" /\ ~crashed
    /\ ClearLogs
    /\ ret' = [RetBase EXCEPT !.op = "system_info", !.kind = "string",
                              !.msg = "system_info", !.engine = TRUE]
    /\ UNCHANGED <<platform, ctxState, ctxSegs, lastError, lastLogE, strLive, pc, call,
                   hostFreed, disciplined, misuse, crashed>>
    /\ UNCHANGED <<encVars, concVars>>

isMultilingual(h, answer) ==
    /\ platform = "android" /\ pc = "idle" /\ ~crashed
    /\ ClearLogs
    /\ HostPasses(h)
    /\ IF h = 0
       THEN /\ answer = 0
            /\ ret' = [RetBase EXCEPT !.op = "is_multilingual", !.kind = "bool"]
            /\ UNCHANGED <<misuse, crashed>>
       ELSE /\ EngineIsMultilingual(h, answer)
            /\ ret' = [RetBase EXCEPT !.op = "is_multilingual", !.h = h, !.kind = "bool",
                                      !.num = answer, !.engine = TRUE]
    /\ UNCHANGED <<platform, ctxState, ctxSegs, lastError, lastLogE, strLive, pc, call,
                   hostFreed>>
    /\ UNCHANGED <<encVars, concVars>>

----------------------------------------------------------------------------
(* The engine's progress tick, either variant *)

\* whisper_full reports progress: it calls params.progress_callback when one
\* is installed; ticks of one run do not decrease
EngineProgress(progress) ==
    /\ pc = "engine" /\ ~crashed
    /\ Len(tickLog) < MaxTicks
    /\ IF tickLog = <<>> THEN TRUE ELSE progress >= tickLog[Len(tickLog)]
    /\ tickLog' = Append(tickLog, progress)
    /\ hostLog' = hostLog \o
          (IF ~call.installed THEN <<>>
           ELSE IF platform = "windows"
                THEN windows_progress_lambda(call.cbData, progress)
                ELSE android_progress_lambda(call.cbData, progress))
    /\ UNCHANGED <<platform, ctxState, ctxSegs, lastError, lastLogE, strLive, pc, call,
                   ret, hostFreed, disciplined, misuse, crashed>>
    /\ UNCHANGED <<encVars, concVars>>

----------------------------------------------------------------------------
(* Spec *)

EncIdle  == encIn = <<>> /\ encOut = <<>> /\ encPc = "off"

ConcIdle ==
    /\ tpc = [t \in 1..NThreads |-> "off"]
    /\ tmsg = [t \in 1..NThreads |-> ""]
    /\ mutex = 0
    /\ errWriting = FALSE
    /\ tstale = [t \in 1..NThreads |-> FALSE]
    /\ tread = [t \in 1..NThreads |-> ""]
    /\ thazard = [t \in 1..NThreads |-> "none"]

MainStart ==
    /\ ctxState = [c \in Ctxs |-> "unalloc"]
    /\ ctxSegs = [c \in Ctxs |-> <<>>]
    /\ lastError = ""
    /\ lastLogE = ""
    /\ strLive = FALSE
    /\ pc = "idle"
    /\ call = NoCall
    /\ tickLog = <<>>
    /\ hostLog = <<>>
    /\ ret = RetBase
    /\ hostFreed = {}
    /\ disciplined = TRUE
    /\ misuse = "none"
    /\ crashed = FALSE

Init ==
    /\ platform \in {"windows", "android"}
    /\ MainStart
    /\ EncIdle
    /\ ConcIdle

Next ==
    \/ \E path \in Paths : whisper_wrapper_init(path)
    \/ \E h \in HostHandles : whisper_wrapper_free(h)
    \/ \E h \in HostHandles, audio \in WindowsAudio, lang \in Langs, cb \in Callbacks :
          whisper_wrapper_transcribe(h, audio, lang, cb)
    \/ \E code \in EngineCodes, segs \in EngineResults :
          whisper_wrapper_transcribe_return(code, segs)
    \/ \E str \in {"null", "live"} : whisper_wrapper_free_string(str)
    \/ whisper_wrapper_get_system_info
    \/ \E h \in HostHandles, answer \in {0, 1} : whisper_wrapper_is_multilingual(h, answer)
    \/ whisper_wrapper_get_last_error
    \/ \E path \in Paths : initContext(path)
    \/ \E h \in HostHandles : freeContext(h)
    \/ \E h \in HostHandles, audio \in AndroidAudio, lang \in Langs, cb \in Callbacks :
          transcribeAudio(h, audio, lang, cb)
    \/ \E code \in EngineCodes, segs \in EngineResults : transcribeAudio_return(code, segs)
    \/ getSystemInfo
    \/ \E h \in HostHandles, answer \in {0, 1} : isMultilingual(h, answer)
    \/ \E progress \in ProgressVals : EngineProgress(progress)

Spec == Init /\ [][Next]_vars

----------------------------------------------------------------------------
(* SpecEnc: the encoder on its own inputs *)

InitEnc ==
    /\ platform \in {"windows", "android"}
    /\ MainStart
    /\ ConcIdle
    /\ encIn \in EncInputs
    /\ encOut = <<>>
    /\ encPc = "ready"

NextEnc == Encode

SpecEnc == InitEnc /\ [][NextEnc]_vars

----------------------------------------------------------------------------
(* SpecConc: host threads on the windows last-error storage.               *)
(* set_error holds g_error_mutex while it assigns g_last_error;            *)
(* whisper_wrapper_get_last_error holds it while it takes c_str() and      *)
(* releases it on return; the host then reads through the pointer.         *)

Threads == 1..NThreads

\* messages the failing calls of the threads record
ConcMsgs == {"Context is null", "Invalid audio data"}

\* a thread enters a call that fails its argument check and calls set_error
FailingCall(t, msg) ==
    /\ tpc[t] = "idle"
    /\ tpc' = [tpc EXCEPT ![t] = "set_error"]
    /\ tmsg' = [tmsg EXCEPT ![t] = msg]
    /\ UNCHANGED <<mutex, errWriting, tstale, tread, thazard, mainVars, encVars>>

\* std::lock_guard<std::mutex> lock(g_error_mutex) in set_error
set_error_lock(t) ==
    /\ tpc[t] = "set_error"
    /\ mutex = 0
    /\ mutex' = t
    /\ tpc' = [tpc EXCEPT ![t] = "assign"]
    /\ UNCHANGED <<tmsg, errWriting, tstale, tread, thazard, mainVars, encVars>>

\* g_last_error = error begins: std::string either writes into the buffer it
\* has or, when the capacity does not suffice, takes a new buffer and
\* releases the old one, which every pointer handed out still refers to
set_error_assign_begin(t, realloc) ==
    /\ tpc[t] = "assign"
    /\ errWriting' = TRUE
    /\ tstale' = [u \in Threads |-> tstale[u] \/ (realloc /\ tpc[u] = "holding")]
    /\ tpc' = [tpc EXCEPT ![t] = "writing"]
    /\ UNCHANGED <<tmsg, mutex, tread, thazard, mainVars, encVars>>

\* the assignment is complete
set_error_assign_end(t) ==
    /\ tpc[t] = "writing"
    /\ lastError' = tmsg[t]
    /\ errWriting' = FALSE
    /\ tpc' = [tpc EXCEPT ![t] = "unlock"]
    /\ UNCHANGED <<tmsg, mutex, tstale, tread, thazard, encVars>>
    /\ UNCHANGED <<platform, ctxState, ctxSegs, lastLogE, strLive, pc, call, tickLog,
                   hostLog, ret, hostFreed, disciplined, misuse, crashed>>

\* the lock_guard of set_error goes out of scope; the failing call returns
set_error_unlock(t) ==
    /\ tpc[t] = "unlock"
    /\ mutex' = 0
    /\ tpc' = [tpc EXCEPT ![t] = "idle"]
    /\ UNCHANGED <<tmsg, errWriting, tstale, tread, thazard, mainVars, encVars>>

\* std::lock_guard<std::mutex> lock(g_error_mutex) in get_last_error
get_last_error_lock(t) ==
    /\ tpc[t] = "idle"
    /\ mutex = 0
    /\ mutex' = t
    /\ tpc' = [tpc EXCEPT ![t] = "c_str"]
    /\ UNCHANGED <<tmsg, errWriting, tstale, tread, thazard, mainVars, encVars>>

\* return g_last_error.c_str(): the pointer into the current buffer is
\* returned and the lock_guard releases the mutex
get_last_error_return(t) ==
    /\ tpc[t] = "c_str"
    /\ mutex' = 0
    /\ tstale' = [tstale EXCEPT ![t] = FALSE]
    /\ tpc' = [tpc EXCEPT ![t] = "holding"]
    /\ UNCHANGED <<tmsg, errWriting, tread, thazard, mainVars, encVars>>

\* the host reads the string behind the returned pointer. Reading a released
\* buffer or one that is being written is undefined: any content may be seen
HostRead(t, seen) ==
    /\ tpc[t] = "holding"
    /\ thazard' = [thazard EXCEPT ![t] =
                      IF tstale[t] THEN "released"
                      ELSE IF errWriting THEN "overwritten" ELSE "none"]
    /\ IF tstale[t] \/ errWriting THEN TRUE ELSE seen = lastError
    /\ tread' = [tread EXCEPT ![t] = seen]
    /\ tpc' = [tpc EXCEPT ![t] = "idle"]
    /\ UNCHANGED <<tmsg, mutex, errWriting, tstale, mainVars, encVars>>

InitConc ==
    /\ platform = "windows"
    /\ MainStart
    /\ EncIdle
    /\ tpc = [t \in Threads |-> "idle"]
    /\ tmsg = [t \in Threads |-> ""]
    /\ mutex = 0
    /\ errWriting = FALSE
    /\ tstale = [t \in Threads |-> FALSE]
    /\ tread = [t \in Threads |-> ""]
    /\ thazard = [t \in Threads |-> "none"]

NextConc ==
    \/ \E t \in Threads, msg \in ConcMsgs : FailingCall(t, msg)
    \/ \E t \in Threads : set_error_lock(t)
    \/ \E t \in Threads, realloc \in BOOLEAN : set_error_assign_begin(t, realloc)
    \/ \E t \in Threads : set_error_assign_end(t)
    \/ \E t \in Threads : set_error_unlock(t)
    \/ \E t \in Threads : get_last_error_lock(t)
    \/ \E t \in Threads : get_last_error_return(t)
    \/ \E t \in Threads, seen \in ConcMsgs \cup {"", "<garbage>"} : HostRead(t, seen)

SpecConc == InitConc /\ [][NextConc]_vars

----------------------------------------------------------------------------
(* Properties *)

InvalidAudio(audio) == audio.isNull \/ audio.n <= 0

C2_InvalidAudio ==
    (/\ ret.op = "transcribe" /\ ret.h # 0
     /\ disciplined /\ misuse = "none"
     /\ InvalidAudio(ret.audio)) =>
        /\ ret.kind = "null"
        /\ lastError = "Invalid audio data"
        /\ ~ret.engine

\* a transcribe call that came back from whisper_full with a non-zero code
EngineFailure == ret.op = "transcribe" /\ ret.engine /\ pc = "idle" /\ ret.code # 0

FailedOp(r) == r.op \in {"init", "transcribe"} /\ r.kind = "null"

\* the message the error taxonomy assigns to a failed operation
ExpectedError(r) ==
    IF r.op = "init"
    THEN IF r.path = NullStr THEN "Model path is null"
         ELSE "Failed to load model from: " \o r.path
    ELSE IF r.h = 0 THEN "Context is null"
    ELSE IF ~r.engine THEN "Invalid audio data"
    ELSE "Transcription failed with code: " \o ToString(r.code)

C4_Step ==
    /\ IF platform = "windows" /\ pc' = "idle" /\ FailedOp(ret')
       THEN lastError' = ExpectedError(ret')
       ELSE lastError' = lastError
    /\ ret'.op = "get_last_error" => ret'.msg = lastError

C5_Original == misuse = "none"

\* C5 amended: as long as the host never passes a handle again after freeing
\* it, no context reaches the engine after it was freed and none is freed
\* twice: the contexts freed are exactly those the host passed to free, and
\* free(null) does not call the engine. The boundary does not stop a host
\* that passes a freed handle.
C5_Disciplined ==
    /\ disciplined =>
          /\ misuse = "none"
          /\ \A c \in Ctxs : ctxState[c] = "freed" <=> c \in hostFreed
    /\ (ret.op = "free" /\ ret.h = 0) => ~ret.engine

\* a context was freed by a host that has kept the discipline, and the
\* boundary was used afterwards
C5_Witness ==
    /\ disciplined
    /\ \E c \in Ctxs : ctxState[c] = "freed"
    /\ ret.op = "transcribe"

\* deliveries equal the ticks of the call when a callback was passed and are
\* none otherwise; no frame is bound outside a call
C6_Inv ==
    /\ hostLog = (IF ret.op = "transcribe" /\ ret.cb # "none" THEN tickLog ELSE <<>>)
    /\ tickLog # <<>> => (ret.op = "transcribe" /\ ret.engine)
    /\ pc = "idle" => call = NoCall

\* outside the engine nothing is delivered
C6_Step == pc = "idle" => (hostLog' = hostLog \/ hostLog' = <<>>)

\* C6: the host callback is invoked once per engine tick of the call, with
\* the tick's value, only while the call is inside the engine; with no
\* callback nothing is invoked; after the return, on every exit path, no
\* lambda stays installed and nothing more is delivered.
C6_CallbackScope == []C6_Inv /\ [][C6_Step]_vars

\* a call that delivered two increasing ticks and then failed in the engine
C6_Witness ==
    /\ pc = "idle" /\ ret.op = "transcribe" /\ ret.code # 0
    /\ hostLog = <<0, 100>>

\* a step ending a transcribe call in failure keeps the context
C7_Step ==
    (/\ pc' = "idle" /\ ret'.op = "transcribe" /\ IsFailure(ret')
     /\ ret'.h # 0 /\ Live(ctxState[ret'.h])) =>
        ctxState'[ret'.h] = ctxState[ret'.h]

\* the call after a failed one reaches the engine when its buffer is usable
C7_Inv ==
    (ret.op = "transcribe" /\ ret.afterFail /\ ~InvalidAudio(ret.audio)) =>
        ret.engine /\ Live(ctxState[ret.h])

\* C7: a transcribe call that fails on a live context leaves the context as
\* it was, and the next transcribe call on that handle with a usable buffer
\* reaches the engine with the context live.
C7_ReusableAfterFailure == [][C7_Step]_vars /\ []C7_Inv

\* a JSON result right after a failed call on the same handle
C7_Witness ==
    /\ ret.op = "transcribe" /\ ret.afterFail
    /\ ret.kind = "string" /\ ret.bytes # <<>>

\* C8: a thread reading the string returned by getLastError always reads one
\* complete recorded message, never a buffer that is being overwritten or was
\* released by a concurrent set_error.
C8_SynchronizedRead ==
    \A t \in Threads :
        /\ thazard[t] = "none"
        /\ tread[t] \in ConcMsgs \cup {""}

====
